---- MODULE Spec2Model ----
(***************************************************************************)
(* Model of the STFT processor of noise-repellent (src/stft_processor.c).  *)
(*                                                                         *)
(* The STFTprocessor struct is the record `self`.  Buffers are functions   *)
(* over 0..n-1, as the C arrays are.  Sample values are exact rationals    *)
(* <<numerator, denominator>> in lowest terms: the model follows the       *)
(* arithmetic of the code without the rounding of float.                   *)
(*                                                                         *)
(* The #define configuration (FFT_SIZE, BLOCK_SIZE, OVERLAP_FACTOR and the *)
(* window types) is drawn in Init from small sets; the transform is the    *)
(* real DFT FFTW computes, which has integer coefficients for the sizes    *)
(* 1, 2 and 4 used here.                                                   *)
(***************************************************************************)
EXTENDS Integers, Sequences, FiniteSets, TLC

VARIABLES
  self,         \* the STFTprocessor object (struct fields)
  heap,         \* the resources currently allocated
  fed,          \* input samples pushed since `base` was taken
  emitted,      \* output samples written to the host since `base` was taken
  base,         \* the object as it was after init / the last reset / the last change of enable
  flag,         \* the enable value of the run() calls since `base`, -1 before the first
  flips,        \* number of times the host changed enable between two run() calls
  resets,       \* number of stft_p_reset calls after init
  total_in,     \* input samples pushed since init
  cycles,       \* analysis-processing-synthesis cycles executed since init
  silent,       \* TRUE while every input sample since init was zero
  call,         \* what the last call did (observations of its steps)
  twin,         \* the same object driven by the same calls with the opposite enable flag
  twin_call     \* what the last call did on the twin

vars == <<self, heap, fed, emitted, base, flag, flips, resets, total_in, cycles,
          silent, call, twin, twin_call>>

----------------------------------------------------------------------------
(* Bounds of the model *)

\* total number of samples pushed through run() in one behaviour
MaxSamples == 4

\* largest n_samples of one run() call
MaxRun == 2

\* number of reset() calls plus changes of the enable flag in one behaviour
MaxChanges == 1

\* sample values fed by the host
Vals == {0, 1}

----------------------------------------------------------------------------
(* Exact rational arithmetic standing for float *)

Abs(x) == IF x < 0 THEN -x ELSE x

RECURSIVE GCD(_, _)
GCD(a, b) == IF b = 0 THEN a ELSE GCD(b, a % b)

\* a float that is not a number (0/0), and one whose value the program
\* does not determine; both have denominator 0
NaN == <<0, 0>>

Indeterminate == <<1, 0>>

IsNaN(a) == a[2] = 0

Zero == <<0, 1>>

FromInt(n) == <<n, 1>>

\* n/d (d # 0) in lowest terms with a positive denominator
Rat(n, d) ==
  IF n = 0 THEN Zero
  ELSE IF d = 1 THEN <<n, 1>>
  ELSE LET s == IF d < 0 THEN -1 ELSE 1
           g == GCD(Abs(n), Abs(d))
       IN  <<(s * n) \div g, (s * d) \div g>>

RAdd(a, b) ==
  IF a[2] = 0 \/ b[2] = 0 THEN NaN
  ELSE IF a[1] = 0 THEN b
  ELSE IF b[1] = 0 THEN a
  ELSE Rat(a[1] * b[2] + b[1] * a[2], a[2] * b[2])

RSub(a, b) == RAdd(a, <<-b[1], b[2]>>)

RMul(a, b) ==
  IF a[2] = 0 \/ b[2] = 0 THEN NaN
  ELSE IF a[1] = 0 \/ b[1] = 0 THEN Zero
  ELSE Rat(a[1] * b[1], a[2] * b[2])

RDiv(a, b) ==
  IF a[2] = 0 \/ b[2] = 0 \/ b[1] = 0 THEN NaN
  ELSE IF a[1] = 0 THEN Zero
  ELSE Rat(a[1] * b[2], a[2] * b[1])

RECURSIVE RSum(_, _)
\* sum of f[0] .. f[n-1]
RSum(f, n) == IF n = 0 THEN Zero ELSE RAdd(RSum(f, n - 1), f[n - 1])

----------------------------------------------------------------------------
(* C array accesses.  An index outside the array is undefined behaviour:   *)
(* a read yields whatever lies there (the value g the environment picked), *)
(* a write lands outside the object and leaves the array as it was.        *)

\* the array with every entry computed (an explicit table of values)
Eager(f) == f @@ <<>>

InRange(buf, i) == i \in DOMAIN buf

Rd(buf, i, g) == IF InRange(buf, i) THEN buf[i] ELSE g

Wr(buf, i, v) == IF InRange(buf, i) THEN Eager([buf EXCEPT ![i] = v]) ELSE buf

\* malloc(n * sizeof(float)): n entries of unspecified content
Malloc(n) == Eager([i \in 0..(n - 1) |-> Zero])

\* initialize_array(array, value, size) of extra_functions.c
initialize_array(array, value, size) ==
  Eager([i \in DOMAIN array |-> IF i < size THEN value ELSE array[i]])

----------------------------------------------------------------------------
(* External collaborators: window generator, transform, Spectral Stage *)

\* Coefficients of fft_window(window, N, window_type) for the lengths the
\* model uses: 0 HANN 0.5 - 0.5 cos(2 pi k/N), 1 HAMMING 0.54 - 0.46 cos(2 pi k/N),
\* 2 BLACKMAN 0.42 - 0.5 cos(2 pi k/N) + 0.08 cos(4 pi k/N),
\* 3 VORBIS sin(pi/2 sin^2(pi k/N)) (rounded to a rational where irrational).
WindowTable(window_type, N) ==
  CASE window_type = 0 /\ N = 2 -> << <<0, 1>>, <<1, 1>> >>
    [] window_type = 0 /\ N = 3 -> << <<0, 1>>, <<3, 4>>, <<3, 4>> >>
    [] window_type = 0 /\ N = 4 -> << <<0, 1>>, <<1, 2>>, <<1, 1>>, <<1, 2>> >>
    [] window_type = 1 /\ N = 2 -> << <<2, 25>>, <<1, 1>> >>
    [] window_type = 1 /\ N = 3 -> << <<2, 25>>, <<77, 100>>, <<77, 100>> >>
    [] window_type = 1 /\ N = 4 -> << <<2, 25>>, <<27, 50>>, <<1, 1>>, <<27, 50>> >>
    [] window_type = 2 /\ N = 2 -> << <<0, 1>>, <<1, 1>> >>
    [] window_type = 2 /\ N = 3 -> << <<0, 1>>, <<63, 100>>, <<63, 100>> >>
    [] window_type = 2 /\ N = 4 -> << <<0, 1>>, <<17, 50>>, <<1, 1>>, <<17, 50>> >>
    [] window_type = 3 /\ N = 2 -> << <<0, 1>>, <<1, 1>> >>
    [] window_type = 3 /\ N = 3 -> << <<0, 1>>, <<12, 13>>, <<12, 13>> >>
    [] window_type = 3 /\ N = 4 -> << <<0, 1>>, <<7, 10>>, <<1, 1>>, <<7, 10>> >>

\* fft_window(window, N, window_type): writes window[0 .. N-1]
fft_window(window, N, window_type) ==
  Eager([i \in DOMAIN window |->
           IF i < N THEN WindowTable(window_type, N)[i + 1] ELSE window[i]])

\* fftwf_execute of the FFTW_R2HC plan: the unnormalised real DFT of x in
\* halfcomplex order r0, r1, ..., r(n/2), i((n+1)/2-1), ..., i1
fftwf_r2hc(x, n) ==
  Eager(
  CASE n = 1 -> [i \in 0..0 |-> x[0]]
    [] n = 2 -> [i \in 0..1 |-> IF i = 0 THEN RAdd(x[0], x[1]) ELSE RSub(x[0], x[1])]
    [] n = 4 -> [i \in 0..3 |->
                   CASE i = 0 -> RAdd(RAdd(x[0], x[1]), RAdd(x[2], x[3]))
                     [] i = 1 -> RSub(x[0], x[2])
                     [] i = 2 -> RSub(RAdd(x[0], x[2]), RAdd(x[1], x[3]))
                     [] i = 3 -> RSub(x[3], x[1])])

\* fftwf_execute of the FFTW_HC2R plan: the unnormalised inverse of fftwf_r2hc
\* (hc2r(r2hc(x)) = n * x)
fftwf_hc2r(X, n) ==
  LET two == FromInt(2) IN
  Eager(
  CASE n = 1 -> [i \in 0..0 |-> X[0]]
    [] n = 2 -> [i \in 0..1 |-> IF i = 0 THEN RAdd(X[0], X[1]) ELSE RSub(X[0], X[1])]
    [] n = 4 -> [i \in 0..3 |->
                   CASE i = 0 -> RAdd(RAdd(X[0], X[2]), RMul(two, X[1]))
                     [] i = 1 -> RSub(RSub(X[0], X[2]), RMul(two, X[3]))
                     [] i = 2 -> RSub(RAdd(X[0], X[2]), RMul(two, X[1]))
                     [] i = 3 -> RAdd(RSub(X[0], X[2]), RMul(two, X[3]))])

\* fft_p_run(fft_processor, spectrum, enable): the Spectral Stage.  Disabled
\* it leaves the spectrum as it is; enabled it modifies it in place (here:
\* it removes the highest bin, which maps a zero spectrum to a zero spectrum).
fft_p_run(spectrum, n, enable) ==
  IF enable = 0 THEN spectrum
  ELSE Eager([i \in DOMAIN spectrum |-> IF i = n \div 2 THEN Zero ELSE spectrum[i]])

----------------------------------------------------------------------------
(* Initialization *)

\* the names of the resources stft_p_init allocates
Resources ==
  {"self", "input_window", "output_window", "in_fifo", "out_fifo",
   "output_accum", "input_fft_buffer", "output_fft_buffer",
   "forward", "backward", "fft_processor"}

\* stft_p_pre_and_post_window: both windows over block_size entries, then
\* the scale factor sum(input_window * output_window) / block_size
stft_p_pre_and_post_window(s) ==
  LET iw == IF s.window_option_input \in 0..3
            THEN fft_window(s.input_window, s.block_size, s.window_option_input)
            ELSE s.input_window
      ow == IF s.window_option_output \in 0..3
            THEN fft_window(s.output_window, s.block_size, s.window_option_output)
            ELSE s.output_window
      prod == Eager([i \in 0..(s.block_size - 1) |-> RMul(iw[i], ow[i])])
      sum == RSum(prod, s.block_size)
  IN  [s EXCEPT !.input_window = iw,
                !.output_window = ow,
                !.overlap_scale_factor = RDiv(sum, FromInt(s.block_size))]

\* faulty variant of stft_p_reset: the accumulator is left as it is
stft_p_reset_keep_accum(s) ==
  [s EXCEPT
     !.input_fft_buffer = initialize_array(@, Zero, s.fft_size),
     !.output_fft_buffer = initialize_array(@, Zero, s.fft_size),
     !.input_window = initialize_array(@, Zero, s.fft_size),
     !.output_window = initialize_array(@, Zero, s.fft_size),
     !.in_fifo = initialize_array(@, Zero, s.block_size),
     !.out_fifo = initialize_array(@, Zero, s.block_size)]

\* stft_p_reset: zero-fills every array, the two windows included
stft_p_reset(s) ==
  [s EXCEPT
     !.input_fft_buffer = initialize_array(@, Zero, s.fft_size),
     !.output_fft_buffer = initialize_array(@, Zero, s.fft_size),
     !.input_window = initialize_array(@, Zero, s.fft_size),
     !.output_window = initialize_array(@, Zero, s.fft_size),
     !.in_fifo = initialize_array(@, Zero, s.block_size),
     !.out_fifo = initialize_array(@, Zero, s.block_size),
     !.output_accum = initialize_array(@, Zero, s.block_size * 2)]

\* stft_p_init with the #define values FFT_SIZE, BLOCK_SIZE, OVERLAP_FACTOR,
\* INPUT_WINDOW_TYPE, OUTPUT_WINDOW_TYPE given as parameters
stft_p_init(FFT_SIZE, BLOCK_SIZE, OVERLAP_FACTOR, INPUT_WINDOW_TYPE, OUTPUT_WINDOW_TYPE) ==
  LET hop == FFT_SIZE \div OVERLAP_FACTOR
      input_latency == FFT_SIZE - hop
      s0 == [fft_size |-> FFT_SIZE,
             block_size |-> BLOCK_SIZE,
             window_option_input |-> INPUT_WINDOW_TYPE,
             window_option_output |-> OUTPUT_WINDOW_TYPE,
             overlap_factor |-> OVERLAP_FACTOR,
             overlap_scale_factor |-> Zero,
             hop |-> hop,
             input_latency |-> input_latency,
             read_position |-> input_latency,
             input_window |-> Malloc(FFT_SIZE),
             output_window |-> Malloc(FFT_SIZE),
             in_fifo |-> Malloc(BLOCK_SIZE),
             out_fifo |-> Malloc(BLOCK_SIZE),
             output_accum |-> Malloc(BLOCK_SIZE * 2),
             input_fft_buffer |-> Malloc(FFT_SIZE),
             output_fft_buffer |-> Malloc(FFT_SIZE)]
  IN  stft_p_pre_and_post_window(stft_p_reset(s0))

\* faulty variant of stft_p_get_latency: returns the moving read position
stft_p_get_latency_position(s) == s.read_position

\* stft_p_get_latency
stft_p_get_latency(s) == s.input_latency

----------------------------------------------------------------------------
(* Analysis, processing, synthesis *)

\* the indices stft_p_zeropad writes: block_size - 1 + k for k = 0 .. number_of_zeros - 1
ZeropadIndices(s) ==
  {s.block_size - 1 + k : k \in 0..((s.fft_size - s.block_size) - 1)}

\* stft_p_zeropad
stft_p_zeropad(s) ==
  [s EXCEPT !.input_fft_buffer =
     Eager([i \in DOMAIN s.input_fft_buffer |->
              IF i \in ZeropadIndices(s) THEN Zero ELSE s.input_fft_buffer[i]])]

\* stft_p_analysis, first step: zero-pad when block_size < fft_size
AnalysisPad(s) == IF s.block_size < s.fft_size THEN stft_p_zeropad(s) ELSE s

\* faulty variant of the windowing step: += in place of *=
AnalysisWindow_add(s) ==
  [s EXCEPT !.input_fft_buffer =
     Eager([k \in DOMAIN s.input_fft_buffer |->
              RAdd(s.input_fft_buffer[k], s.input_window[k])])]

\* stft_p_analysis, second step: the frame times the input window, in place
AnalysisWindow(s) ==
  [s EXCEPT !.input_fft_buffer =
     Eager([k \in DOMAIN s.input_fft_buffer |->
              RMul(s.input_fft_buffer[k], s.input_window[k])])]

\* stft_p_analysis, third step: fftwf_execute(self->forward)
AnalysisForward(s) ==
  [s EXCEPT !.output_fft_buffer = fftwf_r2hc(s.input_fft_buffer, s.fft_size)]

\* stft_p_analysis
stft_p_analysis(s) == AnalysisForward(AnalysisWindow(AnalysisPad(s)))

\* stft_p_processing: hands the spectrum and the enable flag to the Spectral Stage
stft_p_processing(s, enable) ==
  [s EXCEPT !.output_fft_buffer = fft_p_run(s.output_fft_buffer, s.fft_size, enable)]

\* stft_p_synthesis: fftwf_execute(self->backward).  The plan was made
\* without FFTW_PRESERVE_INPUT, so FFTW may overwrite its input: the
\* frequency-domain buffer is Indeterminate afterwards.
SynthesisInverse(s) ==
  [s EXCEPT !.input_fft_buffer = fftwf_hc2r(s.output_fft_buffer, s.fft_size),
            !.output_fft_buffer =
               Eager([k \in DOMAIN s.output_fft_buffer |-> Indeterminate])]

\* stft_p_synthesis: "Normalizing value"
SynthesisNormalize(s) ==
  [s EXCEPT !.input_fft_buffer =
     Eager([k \in DOMAIN s.input_fft_buffer |->
              RDiv(s.input_fft_buffer[k], FromInt(s.fft_size))])]

\* stft_p_synthesis: "Windowing and scaling"
SynthesisWindow(s) ==
  [s EXCEPT !.input_fft_buffer =
     Eager([k \in DOMAIN s.input_fft_buffer |->
              RDiv(RMul(s.output_window[k], s.input_fft_buffer[k]),
                   RMul(s.overlap_scale_factor, FromInt(s.overlap_factor)))])]

\* faulty variant of the accumulation: = in place of +=
SynthesisAccumulate_overwrite(s, g) ==
  [s EXCEPT !.output_accum =
     Eager([k \in DOMAIN s.output_accum |->
              IF k < s.block_size THEN Rd(s.input_fft_buffer, k, g)
              ELSE s.output_accum[k]])]

\* stft_p_synthesis: "Accumulation"
SynthesisAccumulate(s, g) ==
  [s EXCEPT !.output_accum =
     Eager([k \in DOMAIN s.output_accum |->
              IF k < s.block_size
              THEN RAdd(s.output_accum[k], Rd(s.input_fft_buffer, k, g))
              ELSE s.output_accum[k]])]

\* stft_p_synthesis: "Output samples up to the hop size"
SynthesisOutput(s, g) ==
  [s EXCEPT !.out_fifo =
     Eager([k \in DOMAIN s.out_fifo |->
              IF k < s.hop THEN Rd(s.output_accum, k, g) ELSE s.out_fifo[k]])]

\* stft_p_synthesis: "shift FFT accumulator the hop size", the memmove of
\* block_size floats from output_accum + hop to output_accum
SynthesisShift(s, g) ==
  [s EXCEPT !.output_accum =
     Eager([k \in DOMAIN s.output_accum |->
              IF k < s.block_size THEN Rd(s.output_accum, k + s.hop, g)
              ELSE s.output_accum[k]])]

\* faulty variant of the input FIFO move: hop entries moved in place of
\* input_latency entries
SynthesisMoveFifo_hop(s, g) ==
  [s EXCEPT !.in_fifo =
     Eager([k \in DOMAIN s.in_fifo |->
              IF k < s.hop THEN Rd(s.in_fifo, k + s.hop, g)
              ELSE s.in_fifo[k]])]

\* stft_p_synthesis: "move input FIFO"
SynthesisMoveFifo(s, g) ==
  [s EXCEPT !.in_fifo =
     Eager([k \in DOMAIN s.in_fifo |->
              IF k < s.input_latency THEN Rd(s.in_fifo, k + s.hop, g)
              ELSE s.in_fifo[k]])]

\* faulty variant of stft_p_synthesis: the accumulator is shifted before
\* its first hop entries are copied to the output FIFO
stft_p_synthesis_shift_first(s, g) ==
  SynthesisMoveFifo(
    SynthesisOutput(
      SynthesisShift(
        SynthesisAccumulate(
          SynthesisWindow(SynthesisNormalize(SynthesisInverse(s))), g), g), g), g)

\* stft_p_synthesis
stft_p_synthesis(s, g) ==
  SynthesisMoveFifo(
    SynthesisShift(
      SynthesisOutput(
        SynthesisAccumulate(
          SynthesisWindow(SynthesisNormalize(SynthesisInverse(s))), g), g), g), g)

\* the array accesses of one cycle that fall outside their array
CycleBadIndex(s) ==
  (IF \E k \in 0..(s.input_latency - 1) :
        ~InRange(s.in_fifo, k) \/ ~InRange(s.in_fifo, k + s.hop)
   THEN {"in_fifo_shift"} ELSE {})
  \cup (IF \E k \in 0..(s.hop - 1) : ~InRange(s.out_fifo, k)
        THEN {"out_fifo_write"} ELSE {})
  \cup (IF \E k \in 0..(s.hop - 1) : ~InRange(s.output_accum, k)
        THEN {"output_accum_read"} ELSE {})
  \cup (IF \E k \in 0..(s.block_size - 1) : ~InRange(s.output_accum, k + s.hop)
        THEN {"output_accum_shift"} ELSE {})
  \cup (IF s.block_size < s.fft_size
           /\ \E i \in ZeropadIndices(s) : ~InRange(s.input_fft_buffer, i)
        THEN {"zeropad"} ELSE {})

\* faulty variant of the frame copy: read_position restarts at 0
CycleFill_from_zero(s, g) ==
  [s EXCEPT !.input_fft_buffer =
              Eager([i \in DOMAIN s.input_fft_buffer |->
                       IF i < s.block_size THEN Rd(s.in_fifo, i, g)
                       ELSE s.input_fft_buffer[i]]),
            !.read_position = 0]

\* stft_p_run, "Fill the buffer and reset the read position": the memcpy of
\* block_size floats from in_fifo and read_position = input_latency
CycleFill(s, g) ==
  [s EXCEPT !.input_fft_buffer =
              Eager([i \in DOMAIN s.input_fft_buffer |->
                       IF i < s.block_size THEN Rd(s.in_fifo, i, g)
                       ELSE s.input_fft_buffer[i]]),
            !.read_position = s.input_latency]

\* what a cycle does to the filled object b: analysis, processing, synthesis.
\* frame and padded are the time-domain buffer after the memcpy and after
\* the zero-padding step.
CycleOn(b, enable, g) ==
  [self |-> stft_p_synthesis(stft_p_processing(stft_p_analysis(b), enable), g),
   frame |-> b.input_fft_buffer,
   padded |-> AnalysisPad(b).input_fft_buffer,
   padidx |-> IF b.block_size < b.fft_size THEN ZeropadIndices(b) ELSE {},
   stage |-> enable,
   bad |-> CycleBadIndex(b)]

\* the body of `if (self->read_position >= self->block_size)` in stft_p_run
Cycle(s, enable, g) == CycleOn(CycleFill(s, g), enable, g)

----------------------------------------------------------------------------
(* stft_p_run *)

\* the observations of a call that has not processed any sample yet
NewCall(op, n, enable) ==
  [op |-> op, n |-> n, enable |-> enable,
   ret |-> -1,        \* value returned (stft_p_get_latency)
   out |-> <<>>,      \* output[0 .. n-1]
   ks |-> <<>>,       \* loop indices k of the iterations run
   ins |-> <<>>,      \* input[k] read, per iteration
   bad |-> {},        \* array accesses outside their array
   rps |-> {},        \* values of read_position after self->read_position++
   at |-> <<>>,       \* loop indices k at which a cycle ran
   frames |-> <<>>,   \* time-domain buffer after the memcpy, per cycle
   padded |-> <<>>,   \* time-domain buffer after zero-padding, per cycle
   padidx |-> <<>>,   \* indices written by stft_p_zeropad, per cycle
   stage |-> <<>>,    \* enable value handed to the Spectral Stage, per cycle
   wrote |-> <<>>]    \* out_fifo[0 .. hop-1] as the cycle left it, per cycle

\* the array accesses of the first three statements of the loop body that
\* fall outside their array
SampleBadIndex(s) ==
  (IF InRange(s.in_fifo, s.read_position) THEN {} ELSE {"in_fifo_write"})
  \cup (IF InRange(s.out_fifo, s.read_position - s.input_latency)
        THEN {} ELSE {"out_fifo_read"})

\* in_fifo[read_position] = input[k]; read_position++
Push(s, x) ==
  [s EXCEPT !.in_fifo = Wr(s.in_fifo, s.read_position, x),
            !.read_position = s.read_position + 1]

\* the observations c of the call after iteration k on the object s, which
\* read x = input[k] and wrote y to output[k]
Observe(c, s, k, x, y) ==
  [c EXCEPT !.out = Append(c.out, y),
            !.ks = Append(c.ks, k),
            !.ins = Append(c.ins, x),
            !.bad = c.bad \cup SampleBadIndex(s),
            !.rps = c.rps \cup {s.read_position + 1}]

\* the observations c of the call after an iteration that ran the cycle cy
ObserveCycle(c, cy) ==
  [c EXCEPT !.bad = c.bad \cup cy.bad,
            !.at = Append(c.at, Len(c.out) - 1),
            !.frames = Append(c.frames, cy.frame),
            !.padded = Append(c.padded, cy.padded),
            !.padidx = Append(c.padidx, cy.padidx),
            !.stage = Append(c.stage, cy.stage),
            !.wrote = Append(c.wrote,
                             Eager([k \in 0..(cy.self.hop - 1) |->
                                      Rd(cy.self.out_fifo, k, Indeterminate)]))]

\* an iteration of the loop that runs the cycle cy
WithCycle(c, cy) == [self |-> cy.self, call |-> ObserveCycle(c, cy)]

\* faulty variant of the if statement: > in place of >=
AfterPush_late(s1, c, enable, g) ==
  IF s1.read_position > s1.block_size
  THEN WithCycle(c, Cycle(s1, enable, g))
  ELSE [self |-> s1, call |-> c]

\* faulty variant of the if statement: a disabled call skips the cycle and
\* only restarts read_position
AfterPush_bypass(s1, c, enable, g) ==
  IF s1.read_position >= s1.block_size
  THEN IF enable # 0
       THEN WithCycle(c, Cycle(s1, enable, g))
       ELSE [self |-> [s1 EXCEPT !.read_position = s1.input_latency], call |-> c]
  ELSE [self |-> s1, call |-> c]

\* the if statement of the loop body, on the object s1 after read_position++
AfterPush(s1, c, enable, g) ==
  IF s1.read_position >= s1.block_size
  THEN WithCycle(c, Cycle(s1, enable, g))
  ELSE [self |-> s1, call |-> c]

\* iteration k of the for loop of stft_p_run, on input[k] = x
RunSample(m, k, x, enable, g) ==
  AfterPush(Push(m.self, x),
            Observe(m.call, m.self, k, x,
                    Rd(m.self.out_fifo, m.self.read_position - m.self.input_latency, g)),
            enable, g)

RECURSIVE RunLoop(_, _, _, _, _)
\* iterations k .. n_samples - 1 of the for loop (input is 1-based here)
RunLoop(m, k, input, enable, g) ==
  IF k >= Len(input) THEN m
  ELSE RunLoop(RunSample(m, k, input[k + 1], enable, g), k + 1, input, enable, g)

\* faulty variant of stft_p_run: read_position restarts at every call
stft_p_run_restart(s, input, enable, g) ==
  RunLoop([self |-> [s EXCEPT !.read_position = s.input_latency],
           call |-> NewCall("run", Len(input), enable)],
          0, input, enable, g)

\* faulty variant of stft_p_run: the loop starts at k = 1
stft_p_run_skip_first(s, input, enable, g) ==
  RunLoop([self |-> s, call |-> NewCall("run", Len(input), enable)],
          1, input, enable, g)

\* stft_p_run(self, n_samples, input, output, enable): the object and the
\* observations of the call, output included
stft_p_run(s, input, enable, g) ==
  RunLoop([self |-> s, call |-> NewCall("run", Len(input), enable)],
          0, input, enable, g)

----------------------------------------------------------------------------
(* Teardown *)

\* the resources stft_p_free releases, in the order of its statements
ReleaseOrder ==
  <<"input_fft_buffer", "output_fft_buffer", "forward", "backward",
    "input_window", "output_window", "in_fifo", "out_fifo",
    "output_accum", "fft_processor", "self">>

\* one release statement on the heap m.heap: a resource that is not
\* allocated any more is recorded in m.bad (double free)
ReleaseOne(m, r) ==
  IF r \in m.heap THEN [m EXCEPT !.heap = m.heap \ {r}]
  ELSE [m EXCEPT !.bad = m.bad \cup {r}]

RECURSIVE Release(_, _, _)
\* the release statements i .. Len(order) of order, one after the other
Release(m, order, i) ==
  IF i > Len(order) THEN m ELSE Release(ReleaseOne(m, order[i]), order, i + 1)

\* faulty variant of stft_p_free: the accumulator is not released
stft_p_free_leak(h) ==
  Release([heap |-> h, bad |-> {}],
          SelectSeq(ReleaseOrder, LAMBDA r : r # "output_accum"), 1)

\* stft_p_free: the heap it leaves and the resources it released twice
stft_p_free(h) == Release([heap |-> h, bad |-> {}], ReleaseOrder, 1)

----------------------------------------------------------------------------
(* The state machine *)

\* Configurations <<FFT_SIZE, BLOCK_SIZE, OVERLAP_FACTOR, INPUT_WINDOW_TYPE,
\* OUTPUT_WINDOW_TYPE>>.  The shipped one is <<2048, 2048, 4, 3, 3>>.

\* BLOCK_SIZE = FFT_SIZE, as shipped
MatchedConfigs ==
  {<<4, 4, 4, 3, 3>>, <<4, 4, 4, 0, 1>>, <<4, 4, 2, 3, 3>>, <<2, 2, 1, 0, 1>>}

\* two of them, for the checks that run every call twice
SmallConfigs == {<<4, 4, 4, 3, 3>>, <<4, 4, 2, 0, 1>>}

\* BLOCK_SIZE < FFT_SIZE (zero-padded frames)
PaddedConfigs == {<<4, 3, 2, 3, 3>>, <<4, 2, 4, 0, 1>>, <<4, 2, 1, 3, 3>>}

\* configurations with hop = FFT_SIZE / OVERLAP_FACTOR = 0
InvalidConfigs == {<<2, 2, 4, 0, 1>>, <<4, 4, 8, 3, 3>>}

\* what a read outside an array may find
Garbage == {Zero, FromInt(1)}

\* the values the environment may supply for reads outside an array during
\* a call on s: no such read happens unless block_size < fft_size
GarbageAt(s) == IF s.block_size < s.fft_size THEN Garbage ELSE {Zero}

Alive == "self" \in heap

InitWith(configs) ==
  \E c \in configs :
    /\ self = stft_p_init(c[1], c[2], c[3], c[4], c[5])
    /\ twin = self
    /\ base = self
    /\ heap = Resources
    /\ fed = <<>>
    /\ emitted = <<>>
    /\ flag = -1
    /\ flips = 0
    /\ resets = 0
    /\ total_in = 0
    /\ cycles = 0
    /\ silent = TRUE
    /\ call = NewCall("init", 0, 0)
    /\ twin_call = NewCall("init", 0, 0)

Init == InitWith(MatchedConfigs)

InitSmall == InitWith(SmallConfigs)

InitPad == InitWith(PaddedConfigs)

InitBad == InitWith(InvalidConfigs)

\* the samples the host passes: in[1 .. n] as floats
Input(n, in) == Eager([i \in 1..n |-> FromInt(in[i])])

\* the effect of a stft_p_run call that returned r
Ran(r, input, enable, same) ==
  /\ resets + flips + (IF same THEN 0 ELSE 1) <= MaxChanges
  /\ flips' = flips + (IF same THEN 0 ELSE 1)
  /\ self' = r.self
  /\ call' = r.call
  /\ base' = IF same THEN base ELSE self
  /\ fed' = IF same THEN fed \o input ELSE input
  /\ emitted' = IF same THEN emitted \o r.call.out ELSE r.call.out
  /\ flag' = enable
  /\ cycles' = cycles + Len(r.call.at)
  /\ total_in' = total_in + Len(input)
  /\ silent' = (silent /\ \A i \in 1..Len(input) : input[i] = Zero)
  /\ UNCHANGED <<heap, resets>>

\* the host calls stft_p_run with n_samples = n, the samples in and the flag enable
Run(n, in, enable, g) ==
  /\ Alive
  /\ total_in + n <= MaxSamples
  /\ Ran(stft_p_run(self, Input(n, in), enable, g), Input(n, in), enable,
         enable = flag \/ flag = -1)

\* the effect on the twin of a stft_p_run call that returned t
TwinRan(t) ==
  /\ twin' = t.self
  /\ twin_call' = t.call

\* the call made on the object only
RunOne(n, in, enable, g) ==
  /\ Run(n, in, enable, g)
  /\ UNCHANGED <<twin, twin_call>>

\* the call made on the object and, with the opposite flag, on its twin
RunTwin(n, in, enable, g) ==
  /\ Run(n, in, enable, g)
  /\ TwinRan(stft_p_run(twin, Input(n, in), 1 - enable, g))

\* the host calls stft_p_reset
Reset ==
  /\ Alive
  /\ resets + flips < MaxChanges
  /\ self' = stft_p_reset(self)
  /\ twin' = stft_p_reset(twin)
  /\ base' = self'
  /\ fed' = <<>>
  /\ emitted' = <<>>
  /\ resets' = resets + 1
  /\ call' = NewCall("reset", 0, 0)
  /\ twin_call' = call'
  /\ UNCHANGED <<heap, flag, flips, total_in, cycles, silent>>

\* the host calls stft_p_get_latency
GetLatency ==
  /\ Alive
  /\ call' = [NewCall("get_latency", 0, 0) EXCEPT !.ret = stft_p_get_latency(self)]
  /\ UNCHANGED <<self, heap, fed, emitted, base, flag, flips, resets, total_in,
                 cycles, silent, twin, twin_call>>

\* the host calls stft_p_free
Free ==
  /\ Alive
  /\ heap' = stft_p_free(heap).heap
  /\ call' = [NewCall("free", 0, 0) EXCEPT !.bad = stft_p_free(heap).bad]
  /\ UNCHANGED <<self, fed, emitted, base, flag, flips, resets, total_in, cycles,
                 silent, twin, twin_call>>

Next ==
  \/ \E n \in 0..MaxRun, enable \in {0, 1}, g \in GarbageAt(self) :
       \E in \in [1..n -> Vals] : RunOne(n, in, enable, g)
  \/ Reset
  \/ GetLatency
  \/ Free

NextTwin ==
  \/ \E n \in 0..MaxRun, enable \in {0, 1}, g \in GarbageAt(self) :
       \E in \in [1..n -> Vals] : RunTwin(n, in, enable, g)
  \/ Reset
  \/ GetLatency
  \/ Free

\* BLOCK_SIZE = FFT_SIZE
Spec == Init /\ [][Next]_vars

\* BLOCK_SIZE = FFT_SIZE, every call mirrored on the twin
SpecSmall == InitSmall /\ [][NextTwin]_vars

\* BLOCK_SIZE < FFT_SIZE
SpecPad == InitPad /\ [][Next]_vars

\* OVERLAP_FACTOR > FFT_SIZE
SpecBad == InitBad /\ [][Next]_vars

----------------------------------------------------------------------------
(* Properties *)

\* every entry of the array is 0.0
AllZero(buf) == \A i \in DOMAIN buf : buf[i] = Zero

\* the latency the configuration defines: fft_size - hop, hop = fft_size / overlap_factor
ConfigLatency(s) == s.fft_size - (s.fft_size \div s.overlap_factor)

\* the configuration fields of the object
Configuration(s) ==
  <<s.fft_size, s.block_size, s.overlap_factor, s.hop,
    s.window_option_input, s.window_option_output>>

\* no float of the object is NaN: the scale factor is never zero
NoNaN ==
  /\ \A i \in DOMAIN self.output_accum : ~IsNaN(self.output_accum[i])
  /\ \A i \in DOMAIN self.out_fifo : ~IsNaN(self.out_fifo[i])
  /\ \A i \in 1..Len(emitted) : ~IsNaN(emitted[i])

\* the stream since init was run with BLOCK_SIZE = FFT_SIZE, OVERLAP_FACTOR = 4,
\* the same window on both sides, no reset, and the Spectral Stage disabled
IdentityStream ==
  /\ self.block_size = self.fft_size
  /\ self.overlap_factor = 4
  /\ self.window_option_input = self.window_option_output
  /\ resets = 0
  /\ flips = 0
  /\ flag # 1

\* C1: with block_size = fft_size, overlap_factor = 4, matched windows and the
\* Spectral Stage as identity, every output sample from index input_latency
\* on equals the input sample input_latency positions earlier.
C1_DelayedReconstruction ==
  IdentityStream =>
    \A n \in 1..Len(emitted) :
      n > self.input_latency => emitted[n] = fed[n - self.input_latency]

\* what the code does in the case of C1: output sample n is input sample
\* n - fft_size (input_latency + hop), and the first fft_size samples are zero
DelayIsFftSize ==
  IdentityStream =>
    \A n \in 1..Len(emitted) :
      emitted[n] = IF n > self.fft_size THEN fed[n - self.fft_size] ELSE Zero

\* C2: however the samples fed since `base` were split into run() calls, the
\* output and the object (read_position, both FIFOs, the accumulator) are
\* those of one run() call over all of them.
C2_CallBoundaryIndependence ==
  LET whole == stft_p_run(base, fed, IF flag = 1 THEN 1 ELSE 0, Zero)
  IN  /\ whole.call.out = emitted
      /\ whole.self.read_position = self.read_position
      /\ whole.self.in_fifo = self.in_fifo
      /\ whole.self.out_fifo = self.out_fifo
      /\ whole.self.output_accum = self.output_accum

\* C2 witness: the samples came in more than one call, the last call ran a
\* cycle in the middle of the stream and the output is not silent
C2_Witness ==
  /\ call.op = "run"
  /\ call.n >= 1
  /\ Len(fed) > call.n
  /\ call.at # <<>>
  /\ \E i \in 1..Len(emitted) : emitted[i] # Zero

\* C3: no array access of run() falls outside its array (stated of every
\* configuration with block_size <= fft_size and hop > 0).
C3_IndexSafety == call.bad = {}

\* C4: after N input samples exactly N / hop (rounded down) cycles have run,
\* each at a sample that completes a hop.
C4_OneCyclePerHop ==
  /\ cycles = total_in \div self.hop
  /\ call.op = "run" =>
       \A i \in 1..Len(call.at) :
         ((total_in - call.n) + call.at[i] + 1) % self.hop = 0

\* C4 witness: one run() call spanned several hops and ran several cycles
C4_Witness ==
  /\ call.op = "run"
  /\ Len(call.at) >= 2
  /\ cycles = total_in \div self.hop

\* C5: get_latency returns fft_size - hop in every state.
C5_LatencyConstant ==
  /\ stft_p_get_latency(self) = ConfigLatency(self)
  /\ call.op = "get_latency" => call.ret = ConfigLatency(base)

\* C5 witness: get_latency was called after samples were run and the object reset
C5_Witness ==
  /\ call.op = "get_latency"
  /\ call.ret = ConfigLatency(self)
  /\ resets >= 1
  /\ total_in >= 1
  /\ self.read_position # self.input_latency

\* C6: read_position is within [input_latency, block_size] at every point of
\* a call and within [input_latency, block_size) between calls.
C6_ReadPositionRange ==
  /\ \A rp \in call.rps : self.input_latency <= rp /\ rp <= self.block_size
  /\ self.input_latency <= self.read_position
  /\ self.read_position < self.block_size

\* C6 witness: read_position reached block_size inside a call, the cycle
\* ran, and the call returned with a partly filled hop
C6_Witness ==
  /\ call.op = "run"
  /\ self.block_size \in call.rps
  /\ self.read_position > self.input_latency
  /\ self.read_position < self.block_size

\* C7: a reset() step leaves both FIFOs, the accumulator and both transform
\* buffers all zero, allocates and frees nothing, and changes neither the
\* configuration nor what get_latency returns.
C7_ResetZeroes ==
  [][resets' = resets + 1 =>
       /\ AllZero(self'.in_fifo)
       /\ AllZero(self'.out_fifo)
       /\ AllZero(self'.output_accum)
       /\ AllZero(self'.input_fft_buffer)
       /\ AllZero(self'.output_fft_buffer)
       /\ DOMAIN self'.in_fifo = DOMAIN self.in_fifo
       /\ DOMAIN self'.out_fifo = DOMAIN self.out_fifo
       /\ DOMAIN self'.output_accum = DOMAIN self.output_accum
       /\ DOMAIN self'.input_fft_buffer = DOMAIN self.input_fft_buffer
       /\ DOMAIN self'.output_fft_buffer = DOMAIN self.output_fft_buffer
       /\ heap' = heap
       /\ Configuration(self') = Configuration(self)
       /\ stft_p_get_latency(self') = stft_p_get_latency(self)]_vars

\* C7 witness: reset() was called in the middle of a stream that was not silent
C7_Witness ==
  /\ call.op = "reset"
  /\ ~silent
  /\ cycles >= 1
  /\ self.read_position # self.input_latency
  /\ AllZero(self.in_fifo)

\* C8: with block_size < fft_size every cycle zero-fills exactly the entries
\* block_size .. fft_size - 1 of the time-domain buffer and leaves the
\* block_size copied samples as they are.
C8_ZeroPadTail ==
  self.block_size < self.fft_size =>
    \A i \in 1..Len(call.padded) :
      /\ call.padidx[i] = self.block_size..(self.fft_size - 1)
      /\ \A k \in 0..(self.block_size - 1) : call.padded[i][k] = call.frames[i][k]
      /\ \A k \in self.block_size..(self.fft_size - 1) : call.padded[i][k] = Zero

\* C9: run with the opposite enable flag on every call, the twin has the
\* same read_position and input FIFO, copied the same frames at the same
\* samples, and each object handed exactly its call's flag to the Spectral Stage.
C9_EnableIndependence ==
  /\ twin.read_position = self.read_position
  /\ twin.in_fifo = self.in_fifo
  /\ call.op = "run" =>
       /\ twin_call.op = "run"
       /\ twin_call.enable = 1 - call.enable
       /\ twin_call.frames = call.frames
       /\ twin_call.at = call.at
       /\ twin_call.rps = call.rps
       /\ Len(call.stage) = Len(call.at)
       /\ \A i \in 1..Len(call.stage) : call.stage[i] = call.enable
       /\ \A i \in 1..Len(twin_call.stage) : twin_call.stage[i] = twin_call.enable

\* C9 witness: a call ran a cycle and the flag made the two signals differ
C9_Witness ==
  /\ call.op = "run"
  /\ call.at # <<>>
  /\ twin_call.enable = 1 - call.enable
  /\ twin.output_accum # self.output_accum
  /\ twin.in_fifo = self.in_fifo

\* C10: while every input sample since init was zero, every output sample
\* is zero and both FIFOs and the accumulator hold only zeros.
C10_SilenceInSilenceOut ==
  silent =>
    /\ \A i \in 1..Len(call.out) : call.out[i] = Zero
    /\ \A i \in 1..Len(emitted) : emitted[i] = Zero
    /\ AllZero(self.in_fifo)
    /\ AllZero(self.out_fifo)
    /\ AllZero(self.output_accum)

\* C10 witness: silence went through several cycles with the Spectral Stage enabled
C10_Witness ==
  /\ silent
  /\ cycles >= 2
  /\ flag = 1
  /\ Len(emitted) > self.input_latency
  /\ AllZero(self.output_accum)

\* C11: a run() call with n_samples = n runs iterations k = 0 .. n - 1 in
\* order, each reading input[k] and writing output[k]; output[0] is popped
\* from the output FIFO as the call found it, output[1] from the FIFO as
\* iteration 0 left it; with n = 0 nothing is written and the object is unchanged.
C11_ExactlyNSamples ==
  [][call'.op = "run" =>
       /\ total_in' = total_in + call'.n
       /\ Len(call'.out) = call'.n
       /\ call'.ks = [i \in 1..call'.n |-> i - 1]
       /\ call'.ins = SubSeq(fed', Len(fed') - call'.n + 1, Len(fed'))
       /\ call'.n >= 1 =>
            call'.out[1] = self.out_fifo[self.read_position - self.input_latency]
       /\ call'.n >= 2 =>
            LET first == stft_p_run(self, SubSeq(call'.ins, 1, 1), call'.enable, Zero).self
            IN  call'.out[2] = first.out_fifo[first.read_position - first.input_latency]
       /\ call'.n = 0 => self' = self /\ call'.out = <<>>]_vars

\* C11 witness: a call with n_samples = 0 came back after earlier calls had
\* left the input FIFO non-zero in the middle of a hop
C11_Witness ==
  /\ call.op = "run"
  /\ call.n = 0
  /\ call.out = <<>>
  /\ self.read_position # self.input_latency
  /\ ~AllZero(self.in_fifo)

\* C13: every resource is allocated by stft_p_init and stays allocated,
\* whatever run() and reset() calls are made, until stft_p_free, which
\* releases each of them once: nothing is left and nothing is released twice.
C13_ResourceLifecycle ==
  /\ Alive => heap = Resources
  /\ ~Alive => heap = {} /\ call.op = "free" /\ call.bad = {}

\* C13 witness: the object was freed after samples were run and a reset
C13_Witness ==
  /\ ~Alive
  /\ heap = {}
  /\ call.op = "free"
  /\ total_in >= 2
  /\ cycles >= 1
  /\ resets >= 1

\* C12: a configuration with block_size > fft_size or hop <= 0 gives no
\* object on which run() can be called: no run() call is ever made on one.
C12_InvalidRejected ==
  (self.block_size > self.fft_size \/ self.hop <= 0) => call.op # "run"

\* the steps of a cycle on the object s in the order C14 lists them: copy
\* and read_position reset, zero-pad, window, forward transform
StepsToSpectrum(s) ==
  AnalysisForward(AnalysisWindow(AnalysisPad(CycleFill(s, Zero))))

\* ... then, from the spectrum the Spectral Stage returned in p: inverse
\* transform, normalize, window and scale, accumulate, emit hop samples,
\* shift the accumulator (and last the input FIFO move of C15)
StepsFromSpectrum(p) ==
  SynthesisMoveFifo(
    SynthesisShift(
      SynthesisOutput(
        SynthesisAccumulate(
          SynthesisWindow(SynthesisNormalize(SynthesisInverse(p))),
          Zero), Zero), Zero), Zero)

\* a run() step over one sample that ran a cycle
OneSampleCycle == call'.op = "run" /\ call'.n = 1 /\ call'.at = <<0>>

\* C14: a cycle copies the input FIFO as the push left it, resets
\* read_position, and leaves the object as these steps in this order do:
\* zero-pad, window, forward transform, one Spectral Stage call with the
\* flag of the call on that spectrum, inverse transform, normalize, window
\* and scale, accumulate, emit hop samples, shift the accumulator.
C14_CycleOrder ==
  [][OneSampleCycle =>
       /\ \A k \in 0..(self.block_size - 1) :
            call'.frames[1][k] = Push(self, call'.ins[1]).in_fifo[k]
       /\ self'.read_position = self.input_latency
       /\ call'.stage = <<call'.enable>>
       /\ self' = StepsFromSpectrum(
                    stft_p_processing(StepsToSpectrum(Push(self, call'.ins[1])),
                                      call'.enable))]_vars

\* C14 witness: a one-sample call ran a cycle with the Spectral Stage
\* enabled on a frame and an accumulator that were not zero
C14_Witness ==
  /\ call.op = "run"
  /\ call.n = 1
  /\ call.at = <<0>>
  /\ call.enable = 1
  /\ ~AllZero(call.frames[1])
  /\ ~AllZero(self.output_accum)
  /\ ~AllZero(self.out_fifo)

\* input sample number i of the stream, counted from 1 at `base`; the
\* samples before it are those the input FIFO held at `base` (zeros at init)
Past(i) ==
  IF i >= 1 THEN fed[i] ELSE base.in_fifo[base.read_position + i - 1]

\* C15: input FIFO entries [0, read_position) are the last read_position
\* input samples in arrival order, every frame copied by a cycle is the
\* last block_size input samples, and the cycles of a call are hop samples apart.
C15_OverlapTail ==
  /\ \A k \in 0..(self.read_position - 1) :
       self.in_fifo[k] = Past(Len(fed) - self.read_position + k + 1)
  /\ call.op = "run" =>
       /\ \A i \in 1..Len(call.at) : \A j \in 0..(self.block_size - 1) :
            call.frames[i][j] =
              Past((Len(fed) - call.n) + call.at[i] + 1 - self.block_size + j + 1)
       /\ \A i \in 1..(Len(call.at) - 1) :
            call.at[i + 1] - call.at[i] = self.hop

\* C15 witness: two cycles of one call, the retained tail holding a
\* non-zero sample of an earlier call
C15_Witness ==
  /\ call.op = "run"
  /\ Len(call.at) >= 2
  /\ Len(fed) > call.n
  /\ \E k \in 0..(self.input_latency - 1) :
       /\ self.in_fifo[k] # Zero
       /\ Len(fed) - self.read_position + k + 1 <= Len(fed) - call.n

\* the frame synthesis adds to the accumulator in the cycle that the push of
\* x starts on the object s: windowed, scaled inverse transform of the
\* spectrum the Spectral Stage returned
SynthesizedFrame(s, x, enable) ==
  SynthesisWindow(SynthesisNormalize(SynthesisInverse(
    stft_p_processing(StepsToSpectrum(Push(s, x)), enable)))).input_fft_buffer

\* entry k of the accumulator of s after adding the frame f to its first
\* block_size entries
Accumulated(s, f, k) ==
  IF k < s.block_size THEN RAdd(s.output_accum[k], f[k]) ELSE s.output_accum[k]

\* C16: a cycle adds the synthesized frame to accumulator entries
\* [0, block_size), copies entries [0, hop) of the sum to the output FIFO and
\* shifts the accumulator left by hop: afterwards entry k < block_size - hop
\* is the sum's entry k + hop and every entry from block_size - hop on is zero.
C16_AccumulatorUpdate ==
  [][OneSampleCycle =>
       /\ \A k \in 0..(self.hop - 1) :
            self'.out_fifo[k] =
              Accumulated(self, SynthesizedFrame(self, call'.ins[1], call'.enable), k)
       /\ \A k \in 0..(self.block_size - self.hop - 1) :
            self'.output_accum[k] =
              Accumulated(self, SynthesizedFrame(self, call'.ins[1], call'.enable),
                          k + self.hop)
       /\ \A k \in (self.block_size - self.hop)..(2 * self.block_size - 1) :
            self'.output_accum[k] = Zero
       /\ DOMAIN self'.output_accum = 0..(2 * self.block_size - 1)]_vars

\* C16 witness: a one-sample call ran a cycle on an accumulator that held
\* earlier frames and left a non-zero accumulator and output FIFO
C16_Witness ==
  /\ call.op = "run"
  /\ call.n = 1
  /\ call.at = <<0>>
  /\ cycles >= 2
  /\ ~AllZero(self.output_accum)
  /\ \E k \in 0..(self.hop - 1) : self.out_fifo[k] # Zero
  /\ \A k \in (self.block_size - self.hop)..(2 * self.block_size - 1) :
       self.output_accum[k] = Zero

\* C17: the hop samples a cycle writes to the output FIFO are the next hop
\* output samples of the call, in the order written (sample j of the cycle
\* run at iteration k is output[k + 1 + j]), and the next cycle runs only
\* after all hop of them were emitted (stated of every valid configuration,
\* block_size < fft_size included).
C17_OutputFifoOrder ==
  call.op = "run" =>
    \A i \in 1..Len(call.at) :
      /\ i < Len(call.at) => call.at[i + 1] - call.at[i] >= self.hop
      /\ \A j \in 0..(self.hop - 1) :
           call.at[i] + 1 + j < call.n =>
             call.out[call.at[i] + 1 + j + 1] = call.wrote[i][j]

\* the inner product of the first n coefficients of the windows iw and ow
InnerProduct(iw, ow, n) ==
  RSum(Eager([i \in 0..(n - 1) |-> RMul(iw[i], ow[i])]), n)

\* C18: in every state the stored scale factor is the inner product of the
\* input window and the output window the object holds, divided by fft_size.
C18_ScaleFactorConsistent ==
  self.overlap_scale_factor =
    RDiv(InnerProduct(self.input_window, self.output_window, self.fft_size),
         FromInt(self.fft_size))

\* the object stft_p_init gives for the configuration of s
FreshlyInitialized(s) ==
  stft_p_init(s.fft_size, s.block_size, s.overlap_factor,
              s.window_option_input, s.window_option_output)

\* C19: in every state both windows hold the coefficients a freshly
\* initialized object of the same configuration holds.
C19_WindowsReadOnly ==
  /\ self.input_window = FreshlyInitialized(self).input_window
  /\ self.output_window = FreshlyInitialized(self).output_window

====
